---- MODULE Spec2Model ----
(***************************************************************************)
(* A model of the tensor ops of tfjs-core that validate their arguments,   *)
(* normalise shapes and dispatch to the engine's kernels: broadcastTo_,    *)
(* transpose_, multinomial_ and maxPool3d_.                                *)
(* Arrays are objects on a heap (a cell per array the code                 *)
(* creates or receives), so that copying and aliasing are told apart.      *)
(* Sequences are 1-based here; an axis is reported with its 0-based index, *)
(* as in the code.                                                         *)
(***************************************************************************)
EXTENDS Integers, Sequences, FiniteSets, TLC

VARIABLES pc, args, heap, result, trace, calls, prev

vars == <<pc, args, heap, result, trace, calls, prev>>

\* ---------------------------------------------------------------- bounds
MaxSrcRank == 2
MaxRank == 3
MaxExt == 2
MaxPoolRank == 5

\* ---------------------------------------------------------------- inputs
RECURSIVE SeqsUpTo(_, _)
SeqsUpTo(S, n) ==
    IF n = 0 THEN {<<>>}
    ELSE LET shorter == SeqsUpTo(S, n - 1)
         IN  shorter \cup {Append(s, e) : s \in {t \in shorter : Len(t) = n - 1}, e \in S}

\* The shape of a tensor: extents are non-negative integers.
SourceShapes == SeqsUpTo(0..MaxExt, MaxSrcRank)

\* The shape argument is a plain number array: a negative entry can be passed.
TargetArrays == SeqsUpTo(-1..MaxExt, MaxRank)

\* The worked examples of the broadcasting rule.
Examples ==
    { <<<<3>>, <<2, 3>>>>,
      <<<<1, 4>>, <<5, 4>>>>,
      <<<<2, 3>>, <<2, 4>>>>,
      <<<<1, 2, 3>>, <<4>>>> }

BroadcastInputs == (SourceShapes \X TargetArrays) \cup Examples

\* An entry of the shape argument need not be an integer either.  The array is
\* kept as its entries' whole parts and, beside them, their fractional parts
\* in halves; the one non-integer entry passed here is 1/2 (whole part 0).
FractionsOf(t) ==
    {f \in [1..Len(t) -> 0..1] : \A i \in 1..Len(t) : f[i] = 1 => t[i] = 0}

\* perm is a plain number array too, of any length.
PermArrays == SeqsUpTo(-1..MaxSrcRank, MaxSrcRank + 1)

DTypes == {"float32", "complex64"}

\* logits is any tensor the caller has: the types ask for rank 1 or 2.
LogitsShapes == SeqsUpTo(0..MaxExt, MaxRank)

\* x is any tensor the caller has: the types ask for rank 4 or 5.
PoolShapes == SeqsUpTo(1..MaxExt, MaxPoolRank)

DataFormats == {"NDHWC", "NCDHW"}

Pads == {"valid", "same"}

\* seed is optional; 0 is a seed a caller can pass.
Seeds == {[given |-> g, value |-> v] : g \in BOOLEAN, v \in 0..1} \ {[given |-> FALSE, value |-> 1]}

\* ------------------------------------------------------------------ heap
Cells == {"x.shape", "shape", "shape.frac", "newShape", "input.shape", "reps", "perm"}

EmptyHeap == [c \in Cells |-> <<>>]

\* input.shape.slice(): a copy in a new array.
ArraySlice(h, ref, new) == [heap |-> [h EXCEPT ![new] = h[ref]], ref |-> new]

\* Array.from(shape): a copy in a new array.
ArrayFromAlias(h, ref, new) == [heap |-> h, ref |-> ref]
ArrayFrom(h, ref, new) == [heap |-> [h EXCEPT ![new] = h[ref]], ref |-> new]

\* while (newShape.length < shape.length) newShape.unshift(1)
RECURSIVE UnshiftOnes(_, _, _)
UnshiftOnes(h, ref, shapeRef) ==
    IF Len(h[ref]) < Len(h[shapeRef])
    THEN UnshiftOnes([h EXCEPT ![ref] = <<1>> \o @], ref, shapeRef)
    ELSE h

\* ---------------------------------------------------------- collaborators
\* assertNonNegativeIntegerDimensions(shape): TRUE when it does not throw.
NonNegativeIntegerDimensions(s, frac) ==
    \A i \in 1..Len(s) : s[i] >= 0 /\ frac[i] = 0

Call(fn, x, attrs) == [fn |-> fn, x |-> x, attrs |-> attrs]

\* Tile replicates the input reps[i] times along axis i.
TileShape(x, reps) == [i \in 1..Len(x) |-> x[i] * reps[i]]

NoResult == [kind |-> "none", error |-> "", info |-> <<>>, shape |-> <<>>,
             padded |-> <<>>, reps |-> <<>>, axes |-> <<>>, perm |-> <<>>]

Thrown(name, info) == [NoResult EXCEPT !.kind = "error", !.error = name, !.info = info]

\* ----------------------------------------------------------- broadcastTo_
\* The body of the loop over the axes, for axis i:
\*   if (inputShape[i] === shape[i]) reps[i] = 1;
\*   else if (input.shape[i] !== 1) throw
RepsStepKeep(h, inputShape, shape, reps, i) ==
    IF h[inputShape][i] = h[shape][i]
    THEN [heap |-> h, thrown |-> FALSE]
    ELSE [heap |-> h, thrown |-> h[inputShape][i] # 1]
RepsStepNoThrow(h, inputShape, shape, reps, i) ==
    IF h[inputShape][i] = h[shape][i]
    THEN [heap |-> [h EXCEPT ![reps][i] = 1], thrown |-> FALSE]
    ELSE [heap |-> h, thrown |-> FALSE]
RepsStep(h, inputShape, shape, reps, i) ==
    IF h[inputShape][i] = h[shape][i]
    THEN [heap |-> [h EXCEPT ![reps][i] = 1], thrown |-> FALSE]
    ELSE IF h[inputShape][i] # 1
         THEN [heap |-> h, thrown |-> TRUE]
         ELSE [heap |-> h, thrown |-> FALSE]

\* for (let i = shape.length - 1; i >= 0; i--) { ... }
RECURSIVE RepsLoop(_, _, _, _, _)
RepsLoop(h, inputShape, shape, reps, i) ==
    IF i < 1 THEN [heap |-> h, thrown |-> FALSE]
    ELSE LET step == RepsStep(h, inputShape, shape, reps, i)
         IN  IF step.thrown THEN step
             ELSE RepsLoop(step.heap, inputShape, shape, reps, i - 1)

\* reps.map((n, i) => n > 1 ? i : -1).filter(i => i >= 0)
TilingAxesFromOne(reps) ==
    SelectSeq([i \in 1..Len(reps) |-> IF reps[i] >= 1 THEN i - 1 ELSE -1],
              LAMBDA a : a >= 0)
TilingAxes(reps) ==
    SelectSeq([i \in 1..Len(reps) |-> IF reps[i] > 1 THEN i - 1 ELSE -1],
              LAMBDA a : a >= 0)

\* if (shape.length < input.rank) throw
RankTooSmallOrEqual(shapeLen, rank) == shapeLen <= rank
RankTooSmall(shapeLen, rank) == shapeLen < rank

\* The call broadcastTo_(x, shape) on the heap h, where x.shape is the cell
\* "x.shape" and shape the cell "shape": the heap, the outcome and the calls
\* made to reshape, clone and the engine.
BroadcastTo(h) ==
    LET xShape == "x.shape"
        shape == "shape"
    IN
    \* Past this check every entry of shape is its whole part.
    IF ~NonNegativeIntegerDimensions(h[shape], h["shape.frac"])
    THEN [heap |-> h, trace |-> <<>>,
          result |-> Thrown("InvalidDimensions", <<h[shape], h["shape.frac"]>>)]
    ELSE IF RankTooSmall(Len(h[shape]), Len(h[xShape]))
    THEN [heap |-> h, trace |-> <<>>,
          result |-> Thrown("RankMismatch", <<Len(h[shape]), Len(h[xShape])>>)]
    ELSE
    LET grow == Len(h[shape]) > Len(h[xShape])
        sliced == ArraySlice(h, xShape, "newShape")
        h1 == UnshiftOnes(sliced.heap, sliced.ref, shape)
        \* reshape(input, newShape): a tensor with a shape array of its own
        h2 == IF grow THEN [h1 EXCEPT !["input.shape"] = h1[sliced.ref]] ELSE h
        inputShape == IF grow THEN "input.shape" ELSE xShape
        t2 == IF grow THEN <<Call("reshape", h[xShape], h1[sliced.ref])>> ELSE <<>>
        from == ArrayFrom(h2, shape, "reps")
        loop == RepsLoop(from.heap, inputShape, shape, from.ref, Len(from.heap[shape]))
        h3 == loop.heap
        reps == h3[from.ref]
        axes == TilingAxes(reps)
    IN
    IF loop.thrown
    THEN [heap |-> h3, trace |-> t2,
          result |-> Thrown("IncompatibleShapes", <<h3[xShape], h3[shape]>>)]
    ELSE IF Len(axes) = 0
    THEN [heap |-> h3,
          trace |-> Append(t2, Call("clone", h3[inputShape], <<>>)),
          result |-> [NoResult EXCEPT !.kind = "clone", !.shape = h3[inputShape],
                                      !.padded = h3[inputShape], !.reps = reps,
                                      !.axes = axes]]
    ELSE [heap |-> h3,
          trace |-> Append(t2, Call("Tile", h3[inputShape], reps)),
          result |-> [NoResult EXCEPT !.kind = "kernel",
                                      !.shape = TileShape(h3[inputShape], reps),
                                      !.padded = h3[inputShape], !.reps = reps,
                                      !.axes = axes]]

\* ------------------------------------------------------------ transpose_
\* $x.shape.map((s, i) => i).reverse()
ReversedAxesForward(xShape) == [i \in 1..Len(xShape) |-> i - 1]
ReversedAxes(xShape) == [i \in 1..Len(xShape) |-> Len(xShape) - i]

\* Dimension i of the output of the Transpose kernel is dimension perm[i] of
\* its input.
TransposeShape(x, perm) == [i \in 1..Len(perm) |-> x[perm[i] + 1]]

\* if ($x.rank <= 1) return $x.clone()
CloneShortcut(rank) == rank <= 1

\* The call transpose_(x, perm, conjugate) on the heap h, where x.shape is the
\* cell "x.shape" and perm, when given, the cell "perm".
Transpose(h, permGiven, dtype, conjugate) ==
    LET x == h["x.shape"]
        rank == Len(x)
        h1 == IF permGiven THEN h ELSE [h EXCEPT !["perm"] = ReversedAxes(x)]
        perm == h1["perm"]
        out == TransposeShape(x, perm)
        kernel == Call("Transpose", x, perm)
    IN
    IF rank # Len(perm)
    THEN [heap |-> h1, trace |-> <<>>, result |-> Thrown("PermLength", <<rank, perm>>)]
    ELSE IF \E i \in 1..Len(perm) : ~(perm[i] >= 0 /\ perm[i] < rank)
    THEN [heap |-> h1, trace |-> <<>>, result |-> Thrown("PermRange", <<rank - 1, perm>>)]
    ELSE IF CloneShortcut(rank)
    THEN [heap |-> h1, trace |-> <<Call("clone", x, <<>>)>>,
          result |-> [NoResult EXCEPT !.kind = "clone", !.shape = x, !.perm = perm]]
    ELSE IF dtype = "complex64"
    THEN [heap |-> h1,
          trace |-> <<Call("real", x, <<>>), Call("imag", x, <<>>), kernel, kernel>>
                    \o (IF conjugate THEN <<Call("neg", out, <<>>)>> ELSE <<>>)
                    \o <<Call("complex", out, <<>>)>>,
          result |-> [NoResult EXCEPT !.kind = "kernel", !.shape = out, !.perm = perm]]
    ELSE [heap |-> h1, trace |-> <<kernel>>,
          result |-> [NoResult EXCEPT !.kind = "kernel", !.shape = out, !.perm = perm]]

\* ----------------------------------------------------------- multinomial_
\* $logits.size: the number of elements of the tensor.
RECURSIVE SizeOf(_)
SizeOf(shape) == IF shape = <<>> THEN 1 ELSE Head(shape) * SizeOf(Tail(shape))

\* const numOutcomes = $logits.size
NumOutcomes(shape) == SizeOf(shape)

\* seed = seed || Math.random(): 0 and undefined are replaced by a random number.
SeedUsed(seed) ==
    IF seed.given /\ seed.value # 0 THEN [random |-> FALSE, value |-> seed.value]
    ELSE [random |-> TRUE, value |-> 0]

\* The Multinomial kernel returns numSamples samples for each row of logits2D.
MultinomialShape(logits2D, numSamples) == <<logits2D[1], numSamples>>

\* The call multinomial_(logits, numSamples, seed, normalized), logits of shape x.
Multinomial(x, numSamples, seed, normalized) ==
    LET numOutcomes == NumOutcomes(x)
        origRank == Len(x)
        logits2D == IF origRank = 1 THEN <<1, SizeOf(x)>> ELSE x
        t1 == IF origRank = 1 THEN <<Call("reshape", x, logits2D)>> ELSE <<>>
        attrs == <<numSamples, SeedUsed(seed), normalized>>
        res == MultinomialShape(logits2D, numSamples)
        t2 == Append(t1, Call("Multinomial", logits2D, attrs))
    IN
    IF numOutcomes < 2
    THEN [trace |-> <<>>, result |-> Thrown("TooFewOutcomes", <<numOutcomes>>)]
    ELSE IF origRank > 2
    THEN [trace |-> <<>>, result |-> Thrown("LogitsRank", <<origRank>>)]
    ELSE IF origRank = 1
    THEN [trace |-> Append(t2, Call("reshape", res, <<SizeOf(res)>>)),
          result |-> [NoResult EXCEPT !.kind = "kernel", !.shape = <<SizeOf(res)>>]]
    ELSE [trace |-> t2,
          result |-> [NoResult EXCEPT !.kind = "kernel", !.shape = res]]

\* ------------------------------------------------------------- maxPool3d_
\* if ($x.rank === 4) { reshapedTo5D = true; ... }
ReshapedTo5D(rank) == rank = 4

\* [1, $x.shape[0], $x.shape[1], $x.shape[2], $x.shape[3]]
WithBatch(x) == <<1, x[1], x[2], x[3], x[4]>>

\* [res.shape[1], res.shape[2], res.shape[3], res.shape[4]]
WithoutBatchFromZero(res) == <<res[1], res[2], res[3], res[4]>>
WithoutBatch(res) == <<res[2], res[3], res[4], res[5]>>

\* The extent of a pooled axis.
PoolExtent(n, filterSize, strides, pad) ==
    IF pad = "same" THEN (n + strides - 1) \div strides
    ELSE IF n < filterSize THEN 0
    ELSE (n - filterSize) \div strides + 1

\* The MaxPool3D kernel pools depth, height and width of a 5D input.
PoolShape(x5D, filterSize, strides, pad) ==
    <<x5D[1], PoolExtent(x5D[2], filterSize, strides, pad),
      PoolExtent(x5D[3], filterSize, strides, pad),
      PoolExtent(x5D[4], filterSize, strides, pad), x5D[5]>>

\* The call maxPool3d_(x, filterSize, strides, pad, dimRoundingMode, dataFormat)
\* on a tensor of shape x.  checkThrows is the outcome of
\* checkPadOnDimRoundingMode on pad and dimRoundingMode.
MaxPool3d(x, filterSize, strides, pad, dataFormat, checkThrows) ==
    LET reshapedTo5D == ReshapedTo5D(Len(x))
        x5D == IF reshapedTo5D THEN WithBatch(x) ELSE x
        t1 == IF reshapedTo5D THEN <<Call("reshape", x, x5D)>> ELSE <<>>
        attrs == <<filterSize, strides, pad, dataFormat>>
        res == PoolShape(x5D, filterSize, strides, pad)
        t2 == Append(t1, Call("MaxPool3D", x5D, attrs))
    IN
    IF Len(x5D) # 5
    THEN [trace |-> t1, result |-> Thrown("PoolRank", <<Len(x5D)>>)]
    ELSE IF dataFormat # "NDHWC"
    THEN [trace |-> t1, result |-> Thrown("DataFormat", <<dataFormat>>)]
    ELSE IF checkThrows
    THEN [trace |-> t1, result |-> Thrown("PadRounding", <<pad>>)]
    ELSE IF reshapedTo5D
    THEN [trace |-> Append(t2, Call("reshape", res, WithoutBatch(res))),
          result |-> [NoResult EXCEPT !.kind = "kernel", !.shape = WithoutBatch(res)]]
    ELSE [trace |-> t2,
          result |-> [NoResult EXCEPT !.kind = "kernel", !.shape = res]]

\* ---------------------------------------------------------------- actions
NoPrev == [x |-> <<>>, shape |-> <<>>, result |-> NoResult]

NoArgs == [op |-> "none", x |-> <<>>, shape |-> <<>>, perm |-> <<>>,
           permGiven |-> FALSE, dtype |-> "", conjugate |-> FALSE,
           numSamples |-> 0, seed |-> [given |-> FALSE, value |-> 0],
           normalized |-> FALSE, filterSize |-> 0, strides |-> 0, pad |-> "",
           dataFormat |-> "", checkThrows |-> FALSE, frac |-> <<>>]

Init ==
    /\ pc = "idle"
    /\ args = NoArgs
    /\ heap = EmptyHeap
    /\ result = NoResult
    /\ trace = <<>>
    /\ calls = 0
    /\ prev = NoPrev

\* A caller builds a tensor and a shape array and calls broadcastTo.
CallBroadcastTo ==
    /\ pc = "idle"
    /\ \E in \in BroadcastInputs :
       \E frac \in FractionsOf(in[2]) :
         LET h0 == [EmptyHeap EXCEPT !["x.shape"] = in[1], !["shape"] = in[2],
                                     !["shape.frac"] = frac]
             out == BroadcastTo(h0)
         IN  /\ args' = [NoArgs EXCEPT !.op = "broadcastTo", !.x = in[1], !.shape = in[2],
                                       !.frac = frac]
             /\ heap' = out.heap
             /\ result' = out.result
             /\ trace' = out.trace
    /\ calls' = 1
    /\ prev' = NoPrev
    /\ pc' = "done"

\* The caller calls broadcastTo again with the same tensor and the same array.
RepeatBroadcastTo ==
    /\ pc = "done"
    /\ args.op = "broadcastTo"
    /\ calls = 1
    /\ LET out == BroadcastTo(heap)
       IN  /\ args' = [args EXCEPT !.x = heap["x.shape"], !.shape = heap["shape"],
                                   !.frac = heap["shape.frac"]]
           /\ heap' = out.heap
           /\ result' = out.result
           /\ trace' = out.trace
    /\ calls' = 2
    /\ prev' = [x |-> args.x, shape |-> args.shape, result |-> result]
    /\ pc' = "done"

\* A caller builds a tensor and calls transpose, with a perm array or without.
CallTranspose ==
    /\ pc = "idle"
    /\ \E x \in SourceShapes, given \in BOOLEAN, dtype \in DTypes, conjugate \in BOOLEAN :
         \E p \in (IF given THEN PermArrays ELSE {<<>>}) :
           LET h0 == [EmptyHeap EXCEPT !["x.shape"] = x, !["perm"] = p]
               out == Transpose(h0, given, dtype, conjugate)
           IN  /\ args' = [NoArgs EXCEPT !.op = "transpose", !.x = x, !.perm = p,
                                         !.permGiven = given, !.dtype = dtype,
                                         !.conjugate = conjugate]
               /\ heap' = out.heap
               /\ result' = out.result
               /\ trace' = out.trace
    /\ calls' = 1
    /\ prev' = NoPrev
    /\ pc' = "done"

\* A caller builds a logits tensor and calls multinomial.
CallMultinomial ==
    /\ pc = "idle"
    /\ \E x \in LogitsShapes, numSamples \in 1..MaxExt, seed \in Seeds,
          normalized \in BOOLEAN :
         LET out == Multinomial(x, numSamples, seed, normalized)
         IN  /\ args' = [NoArgs EXCEPT !.op = "multinomial", !.x = x,
                                       !.numSamples = numSamples, !.seed = seed,
                                       !.normalized = normalized]
             /\ heap' = [EmptyHeap EXCEPT !["x.shape"] = x]
             /\ result' = out.result
             /\ trace' = out.trace
    /\ calls' = 1
    /\ prev' = NoPrev
    /\ pc' = "done"

\* A caller builds a tensor and calls maxPool3d.
CallMaxPool3d ==
    /\ pc = "idle"
    /\ \E x \in PoolShapes, filterSize \in 1..MaxExt, strides \in 1..MaxExt,
          pad \in Pads, dataFormat \in DataFormats, checkThrows \in BOOLEAN :
         LET out == MaxPool3d(x, filterSize, strides, pad, dataFormat, checkThrows)
         IN  /\ args' = [NoArgs EXCEPT !.op = "maxPool3d", !.x = x,
                                       !.filterSize = filterSize, !.strides = strides,
                                       !.pad = pad, !.dataFormat = dataFormat,
                                       !.checkThrows = checkThrows]
             /\ heap' = [EmptyHeap EXCEPT !["x.shape"] = x]
             /\ result' = out.result
             /\ trace' = out.trace
    /\ calls' = 1
    /\ prev' = NoPrev
    /\ pc' = "done"

\* The caller drops the tensors and arrays of the call.
Return ==
    /\ pc = "done"
    /\ pc' = "idle"
    /\ args' = NoArgs
    /\ heap' = EmptyHeap
    /\ result' = NoResult
    /\ trace' = <<>>
    /\ calls' = 0
    /\ prev' = NoPrev

Next ==
    \/ CallBroadcastTo
    \/ RepeatBroadcastTo
    \/ CallTranspose
    \/ CallMultinomial
    \/ CallMaxPool3d
    \/ Return

Spec == Init /\ [][Next]_vars

\* ----------------------------------------------------------------- claims
Broadcast == pc = "done" /\ args.op = "broadcastTo"

Transposed == pc = "done" /\ args.op = "transpose"

Succeeded == result.kind \in {"clone", "kernel"}

\* The source shape with 1s prepended up to the rank n.
LeftPadded(s, n) == [i \in 1..n |-> IF i <= n - Len(s) THEN 1 ELSE s[i - (n - Len(s))]]

\* Every entry of the target is an integer.
WholeTarget == \A i \in 1..Len(args.frac) : args.frac[i] = 0

\* Every entry of the target is a non-negative integer.
ValidTarget == WholeTarget /\ \A i \in 1..Len(args.shape) : args.shape[i] >= 0

AllOnes(reps) == \A i \in 1..Len(reps) : reps[i] = 1

Dispatched(fn) == \E k \in 1..Len(trace) : trace[k].fn = fn

\* C1: on success the repetitions have the target's length, and on every axis
\* they are 1 where the padded source equals the target and the target's
\* extent where the padded source is 1 and differs from the target.
C1_RepsFollowRule ==
    (Broadcast /\ Succeeded) =>
        LET t == args.shape
            p == LeftPadded(args.x, Len(t))
        IN  /\ Len(result.reps) = Len(t)
            /\ \A i \in 1..Len(t) :
                 /\ (p[i] = t[i] => result.reps[i] = 1)
                 /\ ((p[i] = 1 /\ p[i] # t[i]) => result.reps[i] = t[i])

C1_Witness ==
    /\ Broadcast
    /\ args.x = <<1, 4>>
    /\ args.shape = <<5, 4>>
    /\ result.reps = <<5, 1>>

\* C2 as stated: a target shorter than the source rank always fails with
\* RankMismatch reporting both ranks, with no reshape, clone or kernel; a
\* target at least as long never fails with RankMismatch.
C2_RankMismatchAlways ==
    Broadcast =>
        /\ (Len(args.shape) < Len(args.x) =>
              /\ result.kind = "error"
              /\ result.error = "RankMismatch"
              /\ result.info = <<Len(args.shape), Len(args.x)>>
              /\ trace = <<>>)
        /\ (Len(args.shape) >= Len(args.x) => result.error # "RankMismatch")

\* C2 amended: the same, for a target of non-negative extents; a target with
\* a negative extent is rejected before the ranks are compared.
C2_RankMismatchOnValidTarget ==
    Broadcast =>
        /\ ((ValidTarget /\ Len(args.shape) < Len(args.x)) =>
              /\ result.kind = "error"
              /\ result.error = "RankMismatch"
              /\ result.info = <<Len(args.shape), Len(args.x)>>
              /\ trace = <<>>)
        /\ (Len(args.shape) >= Len(args.x) => result.error # "RankMismatch")

C2_Witness ==
    /\ Broadcast
    /\ args.x = <<1, 2, 3>>
    /\ args.shape = <<4>>
    /\ result.error = "RankMismatch"
    /\ result.info = <<1, 3>>

Incompatible(s, t) ==
    LET p == LeftPadded(s, Len(t))
    IN  \E i \in 1..Len(t) : p[i] # 1 /\ p[i] # t[i]

\* C3 as stated: with the target at least as long as the source rank, the call
\* fails with IncompatibleShapes exactly when some padded source extent is
\* neither 1 nor the target's; the error reports the unpadded source shape and
\* the target, and no Tile kernel is dispatched.
C3_IncompatibleIff ==
    (Broadcast /\ Len(args.shape) >= Len(args.x)) =>
        /\ (result.error = "IncompatibleShapes" <=> Incompatible(args.x, args.shape))
        /\ (result.error = "IncompatibleShapes" =>
              /\ result.kind = "error"
              /\ result.info = <<args.x, args.shape>>
              /\ ~Dispatched("Tile"))

\* C3 amended: the same, for a target of non-negative extents.
C3_IncompatibleIffOnValidTarget ==
    (Broadcast /\ Len(args.shape) >= Len(args.x)) =>
        /\ (ValidTarget =>
              (result.error = "IncompatibleShapes" <=> Incompatible(args.x, args.shape)))
        /\ (result.error = "IncompatibleShapes" =>
              /\ result.kind = "error"
              /\ result.info = <<args.x, args.shape>>
              /\ ~Dispatched("Tile"))

C3_Witness ==
    /\ Broadcast
    /\ args.x = <<2, 3>>
    /\ args.shape = <<2, 4>>
    /\ result.error = "IncompatibleShapes"

\* C4: broadcasting a shape to itself gives repetitions that are all 1 and
\* returns a clone of the input, without the Tile kernel.
C4_IdentityIsClone ==
    (Broadcast /\ WholeTarget /\ args.x = args.shape) =>
        /\ result.kind = "clone"
        /\ Len(result.reps) = Len(args.x)
        /\ AllOnes(result.reps)
        /\ result.shape = args.x
        /\ trace = <<Call("clone", args.x, <<>>)>>

C4_Witness ==
    /\ Broadcast
    /\ args.x = <<0, 2>>
    /\ args.shape = <<0, 2>>
    /\ result.kind = "clone"

\* C5: on success there is no tiling axis exactly when all repetitions are 1;
\* exactly then a copy of the padded source is returned, and otherwise Tile is
\* dispatched with the repetitions.
C5_CloneIffAllOnes ==
    (Broadcast /\ Succeeded) =>
        /\ (result.axes = <<>> <=> AllOnes(result.reps))
        /\ (result.kind = "clone" <=> AllOnes(result.reps))
        /\ (result.kind = "clone" =>
              /\ result.shape = LeftPadded(args.x, Len(args.shape))
              /\ ~Dispatched("Tile"))
        /\ (result.kind = "kernel" =>
              trace[Len(trace)] = Call("Tile", LeftPadded(args.x, Len(args.shape)),
                                       result.reps))

\* C6: every successful call returns a tensor of the target shape.
C6_ResultHasTargetShape ==
    (Broadcast /\ Succeeded) => result.shape = args.shape

\* C7 as stated: [3] to [2,3] pads the source to [1,3] and gives repetitions
\* [1,1] with no tiling axis.
C7_ExampleAllOnes ==
    (Broadcast /\ args.x = <<3>> /\ args.shape = <<2, 3>>) =>
        /\ result.padded = <<1, 3>>
        /\ result.reps = <<1, 1>>
        /\ result.axes = <<>>

\* C7 amended: [3] to [2,3] pads the source to [1,3] and gives repetitions
\* [2,1]; axis 0 is the one tiling axis.
C7_ExampleTilesFirstAxis ==
    (Broadcast /\ args.x = <<3>> /\ args.shape = <<2, 3>>) =>
        /\ result.padded = <<1, 3>>
        /\ result.reps = <<2, 1>>
        /\ result.axes = <<0>>
        /\ trace = <<Call("reshape", <<3>>, <<1, 3>>), Call("Tile", <<1, 3>>, <<2, 1>>)>>

C7_Witness ==
    /\ Broadcast
    /\ args.x = <<3>>
    /\ args.shape = <<2, 3>>
    /\ result.kind = "kernel"

\* C8: enlarging one axis of extent 1 gives the target's extent as the
\* repetition on that axis and 1 on every other; it is the only tiling axis.
C8_SingleAxisEnlarged ==
    Broadcast =>
        \A k \in 1..Len(args.x) :
            ( /\ WholeTarget
              /\ Len(args.shape) = Len(args.x)
              /\ args.x[k] = 1
              /\ args.shape[k] > 1
              /\ \A i \in 1..Len(args.x) : i # k => args.shape[i] = args.x[i] ) =>
            /\ Succeeded
            /\ result.reps = [i \in 1..Len(args.x) |-> IF i = k THEN args.shape[k] ELSE 1]
            /\ result.axes = <<k - 1>>

C8_Witness ==
    /\ Broadcast
    /\ args.x = <<2, 1>>
    /\ args.shape = <<2, 2>>
    /\ result.reps = <<1, 2>>
    /\ result.axes = <<1>>

\* C9: a call leaves the caller's shape array and the tensor's shape as they
\* were, whether it succeeds or fails, and a second call with equal shapes has
\* the outcome of the first.
C9_NoSideEffects ==
    Broadcast =>
        /\ heap["shape"] = args.shape
        /\ heap["shape.frac"] = args.frac
        /\ heap["x.shape"] = args.x
        /\ ((calls = 2 /\ prev.x = args.x /\ prev.shape = args.shape) =>
              result = prev.result)

C9_Witness ==
    /\ Broadcast
    /\ calls = 2
    /\ args.x = <<1>>
    /\ args.shape = <<2, 2>>
    /\ result.kind = "kernel"
    /\ prev.result.kind = "kernel"

\* C10: without perm, transpose uses the axes in reverse order; from rank 2 on
\* that perm is what the Transpose kernel gets, and up to rank 1 a clone is
\* returned and no kernel is dispatched.
C10_DefaultPermReverses ==
    (Transposed /\ ~args.permGiven) =>
        LET n == Len(args.x)
            reversed == [i \in 1..n |-> n - i]
        IN  /\ result.perm = reversed
            /\ (n >= 2 =>
                  /\ result.kind = "kernel"
                  /\ Dispatched("Transpose")
                  /\ \A k \in 1..Len(trace) :
                       trace[k].fn = "Transpose" => trace[k].attrs = reversed)
            /\ (n <= 1 =>
                  /\ result.kind = "clone"
                  /\ trace = <<Call("clone", args.x, <<>>)>>)

C10_Witness ==
    /\ Transposed
    /\ ~args.permGiven
    /\ args.x = <<1, 2>>
    /\ result.kind = "kernel"
    /\ result.perm = <<1, 0>>
    /\ result.shape = <<2, 1>>

\* C11: multinomial throws 'you need at least 2 outcomes' and dispatches no
\* kernel whenever the number of outcomes is less than 2: the length of 1D
\* logits, the second extent of 2D logits [batchSize, numOutcomes].
C11_FewOutcomesRejected ==
    (pc = "done" /\ args.op = "multinomial" /\ Len(args.x) \in {1, 2}) =>
        (args.x[Len(args.x)] < 2 =>
            /\ result.kind = "error"
            /\ result.error = "TooFewOutcomes"
            /\ ~Dispatched("Multinomial"))

Pooled == pc = "done" /\ args.op = "maxPool3d"

\* C12: maxPool3d keeps the rank of its input: a rank-4 input is reshaped to
\* rank 5 with a leading extent 1 before MaxPool3D is dispatched and the
\* kernel's result is reshaped to rank 4 by dropping its leading axis; a
\* rank-5 input is dispatched and its result returned as it is; any other
\* rank, or a dataFormat other than NDHWC, raises an error before any
\* dispatch of the kernel.
C12_RankPreserved ==
    Pooled =>
        LET x == args.x
            attrs == <<args.filterSize, args.strides, args.pad, args.dataFormat>>
        IN  /\ (Succeeded => Len(x) \in {4, 5} /\ Len(result.shape) = Len(x))
            /\ ((Len(x) = 4 /\ Succeeded) =>
                  /\ Len(trace) = 3
                  /\ trace[1] = Call("reshape", x, <<1>> \o x)
                  /\ trace[2] = Call("MaxPool3D", <<1>> \o x, attrs)
                  /\ trace[3].fn = "reshape"
                  /\ trace[3].x = PoolShape(<<1>> \o x, args.filterSize, args.strides,
                                            args.pad)
                  /\ trace[3].attrs = Tail(trace[3].x)
                  /\ result.shape = Tail(trace[3].x))
            /\ ((Len(x) = 5 /\ Succeeded) =>
                  /\ trace = <<Call("MaxPool3D", x, attrs)>>
                  /\ result.shape = PoolShape(x, args.filterSize, args.strides, args.pad))
            /\ ((Len(x) \notin {4, 5} \/ args.dataFormat # "NDHWC") =>
                  /\ result.kind = "error"
                  /\ ~Dispatched("MaxPool3D"))
            /\ ((Len(x) \in {4, 5} /\ args.dataFormat = "NDHWC" /\ ~args.checkThrows) =>
                  Succeeded)

C12_Witness ==
    /\ Pooled
    /\ args.x = <<2, 2, 2, 1>>
    /\ args.filterSize = 2
    /\ args.pad = "valid"
    /\ result.kind = "kernel"
    /\ result.shape = <<1, 1, 1, 1>>
    /\ Len(trace) = 3

IsPermutation(p, n) ==
    /\ Len(p) = n
    /\ \A i \in 1..Len(p) : p[i] >= 0 /\ p[i] < n
    /\ \A i, j \in 1..Len(p) : i # j => p[i] # p[j]

\* C13: transpose raises an error and dispatches no kernel whenever perm is not
\* a permutation of the axes of the input (a wrong length, an entry out of
\* range, a repeated axis); the validation comes before the clone of a tensor
\* of rank up to 1.
C13_NonPermutationRejected ==
    (Transposed /\ args.permGiven /\ ~IsPermutation(args.perm, Len(args.x))) =>
        /\ result.kind = "error"
        /\ trace = <<>>

\* C14: on success the padded source extent times the repetition is the
\* target extent on every axis, extents 0 included; and a target with a
\* negative or non-integer extent is rejected before the ranks are compared,
\* before the axes are walked and before any reshape or kernel dispatch.
C14_ProductAndValidation ==
    Broadcast =>
        /\ (Succeeded =>
              LET p == LeftPadded(args.x, Len(args.shape))
              IN  /\ Len(result.reps) = Len(args.shape)
                  /\ \A i \in 1..Len(args.shape) :
                       p[i] * result.reps[i] = args.shape[i])
        /\ (~ValidTarget =>
              /\ result.kind = "error"
              /\ result.error = "InvalidDimensions"
              /\ trace = <<>>
              /\ heap["newShape"] = <<>>
              /\ heap["reps"] = <<>>)

C14_Witness ==
    /\ Broadcast
    /\ args.x = <<0>>
    /\ args.shape = <<2, 0>>
    /\ result.padded = <<1, 0>>
    /\ result.reps = <<2, 1>>
    /\ result.kind = "kernel"

C14_RejectedFirst ==
    /\ Broadcast
    /\ args.x = <<2, 2>>
    /\ args.shape = <<0>>
    /\ args.frac = <<1>>
    /\ result.error = "InvalidDimensions"

====
